---- MODULE Spec2Model ----
(***************************************************************************)
(* A model of validator.js: the recursive schema matcher                   *)
(* validateAgainstSchema, the result presenter showValidationPanel and the *)
(* asynchronous orchestrator validateAndRender.                            *)
(*                                                                         *)
(* SpecMatch draws a data value, a schema and a path from bounded sets and *)
(* applies validateAgainstSchema once.  Spec runs two interleaved calls of *)
(* validateAndRender against a shared document (mount elements and the     *)
(* list of prepended panels).                                              *)
(***************************************************************************)
EXTENDS Integers, Sequences, FiniteSets, TLC

VARIABLES
    data,      \* SpecMatch: the value handed to validateAgainstSchema
    schema,    \* SpecMatch: the schema handed to validateAgainstSchema
    path,      \* SpecMatch: the initial path
    result,    \* SpecMatch: what validateAgainstSchema produced
    mpc,       \* SpecMatch: "input" before the call, "done" after it
    call,      \* Spec: per call, the arguments and the awaited values
    pc,        \* Spec: per call, where the async function is suspended
    log,       \* Spec: per call, the events of the call in order
    mounts,    \* Spec: innerHTML of every element getElementById can find
    panels     \* Spec: the panels prepended to document.body, first = top

vars == <<data, schema, path, result, mpc, call, pc, log, mounts, panels>>

matchVars == <<data, schema, path, result, mpc>>
orchVars == <<call, pc, log, mounts, panels>>

(***************************************************************************)
(* Bounds.                                                                 *)
(***************************************************************************)
MaxItems == 2      \* arrays of the data set have 0..MaxItems elements
MaxAlts == 2       \* anyOf lists of the schema set have 0..MaxAlts alternatives

(***************************************************************************)
(* JavaScript values as decoded from JSON.  js is the native typeof tag;   *)
(* null and arrays are objects to typeof.  An object keeps its entries in  *)
(* insertion order (keys and vals are parallel); an array keeps its        *)
(* elements in vals.                                                       *)
(***************************************************************************)
JNull == [js |-> "object", isNull |-> TRUE, isArray |-> FALSE, str |-> "null",
          keys |-> <<>>, vals |-> <<>>]
JBool(b) == [js |-> "boolean", isNull |-> FALSE, isArray |-> FALSE,
             str |-> IF b THEN "true" ELSE "false", keys |-> <<>>, vals |-> <<>>]
JNum(n) == [js |-> "number", isNull |-> FALSE, isArray |-> FALSE,
            str |-> ToString(n), keys |-> <<>>, vals |-> <<>>]
JStr(s) == [js |-> "string", isNull |-> FALSE, isArray |-> FALSE, str |-> s,
            keys |-> <<>>, vals |-> <<>>]
JArr(elems) == [js |-> "object", isNull |-> FALSE, isArray |-> TRUE, str |-> "",
                keys |-> <<>>, vals |-> elems]
JObj(ks, vs) == [js |-> "object", isNull |-> FALSE, isArray |-> FALSE, str |-> "",
                 keys |-> ks, vals |-> vs]

\* JavaScript truthiness of a decoded value (the `data || {}` guards).
Truthy(v) ==
    /\ ~v.isNull
    /\ ~(v.js = "boolean" /\ v.str = "false")
    /\ ~(v.js = "number" /\ v.str = "0")
    /\ ~(v.js = "string" /\ v.str = "")

typeOfNoArray(v) ==
    IF v.isNull THEN "null" ELSE v.js

typeOf(v) ==
    IF v.isNull THEN "null"
    ELSE IF v.isArray THEN "array"
    ELSE v.js

(***************************************************************************)
(* Schemas.  Every schema is a record with all the recognised keys; an     *)
(* absent key is hasAnyOf = FALSE, type = "", no properties, no required,  *)
(* items = <<>>, minItems = -1, pattern = "", custom = "".                 *)
(***************************************************************************)
EmptySchema ==
    [hasAnyOf |-> FALSE, anyOf |-> <<>>, type |-> "", propKeys |-> <<>>,
     propVals |-> <<>>, required |-> <<>>, items |-> <<>>, minItems |-> -1,
     pattern |-> "", custom |-> ""]

TypeSchema(t) == [EmptySchema EXCEPT !.type = t]
PatternSchema(p) == [EmptySchema EXCEPT !.type = "string", !.pattern = p]
AnyOfSchema(alts) == [EmptySchema EXCEPT !.hasAnyOf = TRUE, !.anyOf = alts]
ArraySchema(items, min) ==
    [EmptySchema EXCEPT !.type = "array", !.items = items, !.minItems = min]
ObjectSchema(req, pk, pv, hook) ==
    [EmptySchema EXCEPT !.type = "object", !.required = req, !.propKeys = pk,
                        !.propVals = pv, !.custom = hook]

(***************************************************************************)
(* Thrown values.  kind "Error" is an Error object carrying message; kind  *)
(* "nullish" is null or undefined (reading .message of it throws a         *)
(* TypeError); kind "string" is a thrown primitive, whose .message is      *)
(* undefined.                                                              *)
(***************************************************************************)
NoExc == [kind |-> "none", message |-> ""]
ErrorExc(msg) == [kind |-> "Error", message |-> msg]
NullishExc == [kind |-> "nullish", message |-> ""]
StringExc(s) == [kind |-> "string", message |-> s]

\* Reading e.message inside a template literal: the text it yields, or a
\* TypeError when e is null or undefined.
MessageReadThrows(e) == e.kind = "nullish"
MessageText(e) == IF e.kind = "Error" THEN e.message ELSE "undefined"
MessageReadError == ErrorExc("Cannot read properties of null (reading 'message')")

(***************************************************************************)
(* The custom hooks of the schema set, by what calling them does.          *)
(***************************************************************************)
Hooks == {"retEmpty", "retMsg", "retOther", "throwError", "throwNull", "throwString"}

\* schema.custom && typeof schema.custom === 'function'
IsCallable(hook) == hook \in Hooks

\* schema.custom(data): [threw, isString, text, exc]
CustomCall(hook, d) ==
    CASE hook = "retEmpty" -> [threw |-> FALSE, isString |-> TRUE, text |-> "", exc |-> NoExc]
      [] hook = "retMsg" -> [threw |-> FALSE, isString |-> TRUE,
                             text |-> "custom rule rejected " \o typeOf(d), exc |-> NoExc]
      [] hook = "retOther" -> [threw |-> FALSE, isString |-> FALSE, text |-> "", exc |-> NoExc]
      [] hook = "throwError" -> [threw |-> TRUE, isString |-> FALSE, text |-> "",
                                 exc |-> ErrorExc("boom")]
      [] hook = "throwNull" -> [threw |-> TRUE, isString |-> FALSE, text |-> "",
                                exc |-> NullishExc]
      [] OTHER -> [threw |-> TRUE, isString |-> FALSE, text |-> "", exc |-> StringExc("boom")]

(***************************************************************************)
(* Regular expressions of the schema set: "(" does not compile; "^a" tests *)
(* the first character; any other pattern is a literal searched for.       *)
(***************************************************************************)
RegExpCompiles(p) == p # "("
RegExpError(p) == ErrorExc("Invalid regular expression: /" \o p \o "/: Unterminated group")

Contains(s, sub) ==
    \E i \in 1..(Len(s) - Len(sub) + 1) : SubSeq(s, i, i + Len(sub) - 1) = sub

RegExpTest(p, s) ==
    IF Len(p) >= 1 /\ SubSeq(p, 1, 1) = "^"
    THEN Len(s) >= Len(p) - 1 /\ SubSeq(s, 1, Len(p) - 1) = SubSeq(p, 2, Len(p))
    ELSE Contains(s, p)

(***************************************************************************)
(* validateAgainstSchema.  A result is what the function returned (errors, *)
(* warnings) or that it threw (threw, exc); trace lists the checks the     *)
(* call and its recursive calls ran, in order, each with the path and the  *)
(* value of its node.                                                      *)
(***************************************************************************)
Ev(step, p, d) == [step |-> step, path |-> p, arg |-> d]

Returned(errors, warnings, trace) ==
    [threw |-> FALSE, exc |-> NoExc, errors |-> errors, warnings |-> warnings,
     trace |-> trace]
Thrown(exc, trace) ==
    [threw |-> TRUE, exc |-> exc, errors |-> <<>>, warnings |-> <<>>, trace |-> trace]

\* addE / addW: path ? `${path}: ${msg}` : msg
Prefixed(p, msg) == IF p # "" THEN p \o ": " \o msg ELSE msg

\* props[k]: <<child>> when the key has a schema, <<>> otherwise
PropLookup(s, k) ==
    LET hits == {i \in 1..Len(s.propKeys) : s.propKeys[i] = k}
    IN IF hits = {} THEN <<>> ELSE <<s.propVals[CHOOSE i \in hits : \A j \in hits : i <= j]>>

Entries(d) == IF Truthy(d) THEN d ELSE JObj(<<>>, <<>>)
HasKey(d, k) == \E i \in 1..Len(Entries(d).keys) : Entries(d).keys[i] = k

RECURSIVE validateAgainstSchema(_, _, _)
RECURSIVE MapAnyOf(_, _, _, _)
RECURSIVE AnyOfWarnings(_, _, _)
RECURSIVE AnyOfWarningsOneBased(_, _, _)
RECURSIVE RequiredErrors(_, _, _, _)
RECURSIVE Children(_, _, _, _)
RECURSIVE Items(_, _, _, _)

\* schema.anyOf.map(...) over the first n alternatives: the results so far, or
\* the failure of the first alternative that threw.
MapAnyOf(d, s, p, n) ==
    IF n = 0 THEN [threw |-> FALSE, exc |-> NoExc, results |-> <<>>, trace |-> <<>>]
    ELSE LET prev == MapAnyOf(d, s, p, n - 1)
         IN IF prev.threw THEN prev
            ELSE LET r == validateAgainstSchema(d, s.anyOf[n], p)
                 IN [threw |-> r.threw, exc |-> r.exc,
                     results |-> IF r.threw THEN prev.results ELSE Append(prev.results, r),
                     trace |-> prev.trace \o r.trace]

\* As AnyOfWarnings, numbering the alternatives from 1.
AnyOfWarningsOneBased(results, p, n) ==
    IF n = 0 THEN <<>>
    ELSE AnyOfWarningsOneBased(results, p, n - 1) \o
         [j \in 1..Len(results[n].errors) |->
            Prefixed(p, "anyOf[" \o ToString(n) \o "] → " \o results[n].errors[j])]

\* results.forEach((r, i) => r.errors.forEach((e) => addW(`anyOf[${i}] → ${e}`)))
\* for the first n results.
AnyOfWarnings(results, p, n) ==
    IF n = 0 THEN <<>>
    ELSE AnyOfWarnings(results, p, n - 1) \o
         [j \in 1..Len(results[n].errors) |->
            Prefixed(p, "anyOf[" \o ToString(n - 1) \o "] → " \o results[n].errors[j])]

\* req.forEach(...) over the first n required keys.
RequiredErrors(d, req, p, n) ==
    IF n = 0 THEN <<>>
    ELSE RequiredErrors(d, req, p, n - 1) \o
         (IF HasKey(d, req[n]) THEN <<>>
          ELSE <<Prefixed(p, "Missing required key \"" \o req[n] \o "\".")>>)

\* The loop over Object.entries(data || {}), first n entries.
Children(d, s, p, n) ==
    IF n = 0 THEN Returned(<<>>, <<>>, <<>>)
    ELSE LET prev == Children(d, s, p, n - 1)
             k == Entries(d).keys[n]
             child == PropLookup(s, k)
         IN IF prev.threw \/ child = <<>> THEN prev
            ELSE LET r == validateAgainstSchema(Entries(d).vals[n], child[1],
                                                IF p # "" THEN p \o "." \o k ELSE k)
                 IN IF r.threw THEN Thrown(r.exc, prev.trace \o r.trace)
                    ELSE Returned(prev.errors \o r.errors, prev.warnings \o r.warnings,
                                  prev.trace \o r.trace)

\* (data || []).forEach(...) over the first n elements.
Items(d, itemSchema, p, n) ==
    IF n = 0 THEN Returned(<<>>, <<>>, <<>>)
    ELSE LET prev == Items(d, itemSchema, p, n - 1)
         IN IF prev.threw THEN prev
            ELSE LET r == validateAgainstSchema(d.vals[n], itemSchema,
                                                p \o "[" \o ToString(n - 1) \o "]")
                 IN IF r.threw THEN Thrown(r.exc, prev.trace \o r.trace)
                    ELSE Returned(prev.errors \o r.errors, prev.warnings \o r.warnings,
                                  prev.trace \o r.trace)

\* As AnyOfBranch, keeping the warnings of the first alternative, passing or not.
AnyOfBranchFirstResult(d, s, p) ==
    LET m == MapAnyOf(d, s, p, Len(s.anyOf))
        here == <<Ev("anyOf", p, d)>>
    IN IF m.threw THEN Thrown(m.exc, here \o m.trace)
       ELSE IF \A i \in 1..Len(m.results) : Len(m.results[i].errors) # 0
            THEN Returned(<<Prefixed(p, "Value must match one of the allowed shapes.")>>,
                          AnyOfWarnings(m.results, p, Len(m.results)),
                          here \o m.trace)
            ELSE Returned(<<>>, m.results[1].warnings, here \o m.trace)

\* if (schema.anyOf) { ... return }
AnyOfBranch(d, s, p) ==
    LET m == MapAnyOf(d, s, p, Len(s.anyOf))
        here == <<Ev("anyOf", p, d)>>
    IN IF m.threw THEN Thrown(m.exc, here \o m.trace)
       ELSE LET passing == {i \in 1..Len(m.results) : Len(m.results[i].errors) = 0}
            IN IF passing = {}
               THEN Returned(<<Prefixed(p, "Value must match one of the allowed shapes.")>>,
                             AnyOfWarnings(m.results, p, Len(m.results)),
                             here \o m.trace)
               ELSE LET firstOK == CHOOSE i \in passing : \A j \in passing : i <= j
                    IN Returned(<<>>, m.results[firstOK].warnings, here \o m.trace)

\* if (schema.type === 'object') { ... }, from the accumulated result acc.
ObjectBranch(d, s, p, acc) ==
    IF s.type # "object" THEN acc
    ELSE LET reqE == RequiredErrors(d, s.required, p, Len(s.required))
             reqT == IF s.required = <<>> THEN <<>> ELSE <<Ev("required", p, d)>>
             kids == Children(d, s, p, Len(Entries(d).keys))
             before == acc.trace \o reqT \o kids.trace
         IN IF kids.threw THEN Thrown(kids.exc, before)
            ELSE IF ~IsCallable(s.custom)
                 THEN Returned(acc.errors \o reqE \o kids.errors,
                               acc.warnings \o kids.warnings, before)
            ELSE LET c == CustomCall(s.custom, d)
                     after == before \o <<Ev("custom", p, d)>>
                     errs == acc.errors \o reqE \o kids.errors
                     warns == acc.warnings \o kids.warnings
                 IN IF ~c.threw
                    THEN Returned(errs \o (IF c.isString /\ c.text # ""
                                           THEN <<Prefixed(p, c.text)>> ELSE <<>>),
                                  warns, after)
                    ELSE IF MessageReadThrows(c.exc)
                         THEN Thrown(MessageReadError, after)
                         ELSE Returned(errs \o <<Prefixed(p, "Custom validator threw: "
                                                          \o MessageText(c.exc))>>,
                                       warns, after)

\* if (schema.type === 'array') { ... }
ArrayBranch(d, s, p, acc) ==
    IF acc.threw \/ s.type # "array" THEN acc
    ELSE LET arr == IF Truthy(d) THEN d.vals ELSE <<>>
             itemSchema == IF s.items = <<>> THEN EmptySchema ELSE s.items[1]
             its == Items(d, itemSchema, p, Len(arr))
             minT == IF s.minItems # -1 THEN <<Ev("minItems", p, d)>> ELSE <<>>
         IN IF its.threw THEN Thrown(its.exc, acc.trace \o its.trace)
            ELSE Returned(acc.errors \o its.errors \o
                            (IF s.minItems # -1 /\ Len(arr) < s.minItems
                             THEN <<Prefixed(p, "Array has " \o ToString(Len(arr))
                                       \o " items; expected at least "
                                       \o ToString(s.minItems) \o ".")>>
                             ELSE <<>>),
                          acc.warnings \o its.warnings,
                          acc.trace \o its.trace \o minT)

\* if (schema.type === 'string' && schema.pattern) { ... }
PatternBranch(d, s, p, acc) ==
    IF acc.threw \/ s.type # "string" \/ s.pattern = "" THEN acc
    ELSE LET t == acc.trace \o <<Ev("pattern", p, d)>>
         IN IF ~RegExpCompiles(s.pattern) THEN Thrown(RegExpError(s.pattern), t)
            ELSE Returned(acc.errors \o
                            (IF RegExpTest(s.pattern, d.str) THEN <<>>
                             ELSE <<Prefixed(p, "String does not match pattern "
                                                \o s.pattern \o ".")>>),
                          acc.warnings, t)

validateAgainstSchema(d, s, p) ==
    IF s.hasAnyOf THEN AnyOfBranch(d, s, p)
    ELSE LET t == typeOf(d)
             here == <<Ev("type", p, d)>>
         IN IF s.type # "" /\ s.type # t
            THEN Returned(<<Prefixed(p, "Expected type \"" \o s.type \o "\" but got \""
                                        \o t \o "\".")>>, <<>>, here)
            ELSE PatternBranch(d, s, p,
                   ArrayBranch(d, s, p,
                     ObjectBranch(d, s, p, Returned(<<>>, <<>>, here))))

(***************************************************************************)
(* The data and schema sets SpecMatch draws from.                          *)
(***************************************************************************)
SeqsUpTo(S, n) == UNION {[1..k -> S] : k \in 0..n}

Leaves == {JNull, JBool(TRUE), JNum(1), JStr("a"), JStr("b")}
ElemSet == {JNum(1), JStr("a"), JBool(TRUE)}
ValSet == {JNum(1), JStr("b"), JBool(TRUE)}
KeySeqs == {<<>>, <<"a">>, <<"b">>, <<"a", "b">>, <<"b", "a">>}

Arrays == {JArr(e) : e \in SeqsUpTo(ElemSet, MaxItems)}
Objects == UNION {{JObj(ks, vs) : vs \in [1..Len(ks) -> ValSet]} : ks \in KeySeqs}
Nested == {JObj(<<"a">>, <<JArr(<<JNum(1), JBool(TRUE)>>)>>),
           JObj(<<"a">>, <<JObj(<<"b">>, <<JBool(TRUE)>>)>>),
           JArr(<<JObj(<<"a">>, <<JBool(TRUE)>>)>>)}
DataSet == Leaves \cup Arrays \cup Objects \cup Nested

StringOrNumber == AnyOfSchema(<<TypeSchema("string"), TypeSchema("number")>>)

LeafSchemas ==
    {EmptySchema, PatternSchema("^a"), PatternSchema("(")}
      \cup {TypeSchema(t) : t \in {"string", "number", "boolean", "null", "array", "object"}}

ChildSchemas == {TypeSchema("string"), TypeSchema("number"), PatternSchema("^a"),
                 StringOrNumber}

PropChoices ==
    {<<<<>>, <<>>>>}
      \cup {<<<<"a">>, <<c>>>> : c \in ChildSchemas}
      \cup {<<<<"b">>, <<c>>>> : c \in {TypeSchema("number"), StringOrNumber}}
      \cup {<<<<"a", "b">>, <<c, TypeSchema("number")>>>> : c \in ChildSchemas}

ObjectSchemas ==
    {ObjectSchema(req, pc2[1], pc2[2], hook) :
        req \in {<<>>, <<"a">>, <<"a", "b">>},
        pc2 \in PropChoices,
        hook \in Hooks \cup {"", "notCallable"}}

ArraySchemas ==
    {ArraySchema(it, min) :
        it \in {<<>>} \cup {<<c>> : c \in ChildSchemas},
        min \in {-1} \cup 1..(MaxItems + 1)}

AltSchemas ==
    {TypeSchema("string"), TypeSchema("number"), PatternSchema("^a"),
     ArraySchema(<<TypeSchema("number")>>, 1),
     ObjectSchema(<<"a">>, <<"a">>, <<StringOrNumber>>, ""),
     TypeSchema("object"),
     ObjectSchema(<<>>, <<>>, <<>>, "throwNull")}

AnyOfSchemas ==
    {[AnyOfSchema(alts) EXCEPT !.type = t] :
        alts \in SeqsUpTo(AltSchemas, MaxAlts), t \in {"", "string"}}

NestedSchemas ==
    {ObjectSchema(<<>>, <<"a">>, <<ArraySchema(<<StringOrNumber>>, 3)>>, "retMsg"),
     ObjectSchema(<<"a">>, <<"a">>, <<ObjectSchema(<<"a">>, <<"b">>, <<StringOrNumber>>, "throwError")>>, ""),
     ArraySchema(<<ObjectSchema(<<"b">>, <<"a">>, <<StringOrNumber>>, "retMsg")>>, -1),
     ObjectSchema(<<>>, <<"a">>, <<PatternSchema("(")>>, "retMsg")}

SchemaSet == LeafSchemas \cup ObjectSchemas \cup ArraySchemas \cup AnyOfSchemas
               \cup NestedSchemas

PathSet == {"", "pois"}

NoResult == Returned(<<>>, <<>>, <<>>)

(***************************************************************************)
(* SpecMatch: one application of validateAgainstSchema.                    *)
(***************************************************************************)
InitMatch ==
    /\ data \in DataSet
    /\ schema \in SchemaSet
    /\ path \in PathSet
    /\ result = NoResult
    /\ mpc = "input"
    /\ call = <<>>
    /\ pc = <<>>
    /\ log = <<>>
    /\ mounts = <<>>
    /\ panels = <<>>

Validate ==
    /\ mpc = "input"
    /\ result' = validateAgainstSchema(data, schema, path)
    /\ mpc' = "done"
    /\ UNCHANGED <<data, schema, path, orchVars>>

NextMatch == Validate

SpecMatch == InitMatch /\ [][NextMatch]_vars

(***************************************************************************)
(* validateAndRender.  The shared document and the calls' own states form  *)
(* a world w = [call, pc, log, mounts, panels]; every operator below takes *)
(* the world before a piece of the function's body and yields the world    *)
(* after it.                                                               *)
(***************************************************************************)
CallIds == {1, 2}

Urls == {"pois.json", "data/events"}
DomIds == {"m1", "m2"}                       \* the elements the document has
MountIds == {"", "m1", "m2", "gone"}         \* "" is no mountOnErrorId given
StatusSet == {200, 404, 500}

DocSchema ==
    ObjectSchema(<<"a">>, <<"a", "b">>, <<StringOrNumber, PatternSchema("(")>>, "retOther")
OrchSchemas == {DocSchema, StringOrNumber}
OrchData == {JObj(<<"a">>, <<JStr("x")>>), JObj(<<"a">>, <<JBool(TRUE)>>),
             JObj(<<"b">>, <<JStr("x")>>), JStr("s")}

FetchFailure == ErrorExc("Failed to fetch")
JsonFailure == ErrorExc("Unexpected token < in JSON at position 0")
RenderFailures == {ErrorExc("render failed"), NullishExc, StringExc("oops")}

IdleCall ==
    [url |-> "", schema |-> EmptySchema, mountOnErrorId |-> "",
     fetchOutcome |-> "none", status |-> 0,
     jsonOutcome |-> "none", json |-> JNull,
     validated |-> "none", errors |-> <<>>, warnings |-> <<>>,
     renderOutcome |-> "none", rendered |-> <<>>,
     caught |-> <<>>, rejection |-> NoExc]

World == [call |-> call, pc |-> pc, log |-> log, mounts |-> mounts, panels |-> panels]

Becomes(w) ==
    /\ call' = w.call
    /\ pc' = w.pc
    /\ log' = w.log
    /\ mounts' = w.mounts
    /\ panels' = w.panels

Logged(w, i, ev, text) == [w EXCEPT !.log[i] = Append(@, [ev |-> ev, text |-> text])]

\* url.replace(/\.json$/, '')
StripJson(url) ==
    IF Len(url) >= 5 /\ SubSeq(url, Len(url) - 4, Len(url)) = ".json"
    THEN SubSeq(url, 1, Len(url) - 5)
    ELSE url

\* res.ok
StatusOkBelow500(status) == status < 500
StatusOk(status) == status >= 200 /\ status <= 299

\* errors.length as a condition
HasErrorsInverted(errors) == Len(errors) = 0
HasErrorsMoreThanOne(errors) == Len(errors) > 1
HasErrors(errors) == Len(errors) # 0

ValidationFailedHtml(url) ==
    "<div class=\"bg-red-100 text-red-700 p-4 rounded\">Validation failed for <b>"
      \o url \o "</b>. See details above.</div>"

LoadFailedHtml(url, message) ==
    "<div class=\"bg-red-100 text-red-700 p-4 rounded\">Failed to load <b>"
      \o url \o "</b>: " \o message \o "</div>"

\* mount.innerHTML = html, on the element with this id
SetInnerHTMLEverywhere(ms, id, html) == [m \in DOMAIN ms |-> html]
SetInnerHTML(ms, id, html) == [ms EXCEPT ![id] = html]

\* showValidationPanel(fileName, errors, warnings), called by call i
ShowPanelOnlyOnErrors(w, i, fileName, errors, warnings) ==
    IF Len(errors) = 0 THEN w
    ELSE Logged(Logged([w EXCEPT !.panels = <<[fileName |-> fileName, errors |-> errors,
                                               warnings |-> warnings]>> \o @],
                       i, "panel", fileName), i, "console.error", fileName)
showValidationPanel(w, i, fileName, errors, warnings) ==
    LET w1 == Logged([w EXCEPT !.panels = <<[fileName |-> fileName, errors |-> errors,
                                             warnings |-> warnings]>> \o @],
                     i, "panel", fileName)
        w2 == IF Len(errors) # 0 THEN Logged(w1, i, "console.error", fileName) ELSE w1
    IN IF Len(warnings) # 0 THEN Logged(w2, i, "console.warn", fileName) ELSE w2

\* if (mountOnErrorId) { const mount = getElementById(...); if (mount) mount.innerHTML = ... }
\* in the validation-failed branch.
WriteValidationFailed(w, i) ==
    LET id == w.call[i].mountOnErrorId
    IN IF id # "" /\ id \in DomIds
       THEN Logged([w EXCEPT !.mounts = SetInnerHTML(@, id, ValidationFailedHtml(w.call[i].url))],
                   i, "write", ValidationFailedHtml(w.call[i].url))
       ELSE w

\* catch (e) { ... }: the call ends; it ends rejected when reading e.message throws.
Catch(w, i, e) ==
    LET id == w.call[i].mountOnErrorId
        w1 == Logged([w EXCEPT !.call[i].caught = Append(@, e)], i, "console.error", "")
    IN IF id # "" /\ id \in DomIds
       THEN IF MessageReadThrows(e)
            THEN [w1 EXCEPT !.pc[i] = "rejected", !.call[i].rejection = MessageReadError]
            ELSE Logged([w1 EXCEPT !.pc[i] = "done",
                                   !.mounts = SetInnerHTML(@, id,
                                       LoadFailedHtml(w.call[i].url, MessageText(e)))],
                        i, "write", LoadFailedHtml(w.call[i].url, MessageText(e)))
       ELSE [w1 EXCEPT !.pc[i] = "done"]

\* await render(json): rb is what the callback does when invoked: "fulfil" or
\* "pending" (it returns, and its promise settles later), or a value it throws
\* synchronously.
InvokeRender(w, i, rb) ==
    LET w1 == Logged([w EXCEPT !.call[i].rendered = Append(@, w.call[i].json)],
                     i, "render", "")
    IN IF rb \in RenderFailures
       THEN Catch([w1 EXCEPT !.call[i].renderOutcome = "threw"], i, rb)
       ELSE [w1 EXCEPT !.call[i].renderOutcome = "pending", !.pc[i] = "render"]

\* Lines 101-110: from the decoded json to the render call or the early return.
AfterDecode(w, i, rb) ==
    LET c == w.call[i]
        r == validateAgainstSchema(c.json, c.schema, StripJson(c.url))
        w1 == Logged(w, i, "validate", StripJson(c.url))
    IN IF r.threw
       THEN Catch([w1 EXCEPT !.call[i].validated = "threw"], i, r.exc)
       ELSE LET w2 == showValidationPanel(
                        [w1 EXCEPT !.call[i].validated = "returned",
                                   !.call[i].errors = r.errors,
                                   !.call[i].warnings = r.warnings],
                        i, c.url, r.errors, r.warnings)
            IN IF HasErrors(r.errors)
               THEN [WriteValidationFailed(w2, i) EXCEPT !.pc[i] = "done"]
               ELSE InvokeRender(w2, i, rb)

(***************************************************************************)
(* The actions: the call itself, and the three resumptions of the async    *)
(* function (after fetch, after res.json(), after render).                 *)
(***************************************************************************)
Init ==
    /\ data = JNull
    /\ schema = EmptySchema
    /\ path = ""
    /\ result = NoResult
    /\ mpc = "idle"
    /\ call = [i \in CallIds |-> IdleCall]
    /\ pc = [i \in CallIds |-> "idle"]
    /\ log = [i \in CallIds |-> <<>>]
    /\ mounts = [m \in DomIds |-> ""]
    /\ panels = <<>>

\* validateAndRender({url, schema, mountOnErrorId, render}) up to `await fetch(...)`
StartCall(i) ==
    /\ pc[i] = "idle"
    /\ \E u \in Urls, s \in OrchSchemas, m \in MountIds :
         Becomes(Logged([World EXCEPT !.call[i].url = u, !.call[i].schema = s,
                                     !.call[i].mountOnErrorId = m,
                                     !.call[i].fetchOutcome = "pending",
                                     !.pc[i] = "fetch"],
                        i, "fetch", u))
    /\ UNCHANGED matchVars

\* The fetch promise rejects.
FetchRejects(i) ==
    /\ pc[i] = "fetch"
    /\ Becomes(Catch([World EXCEPT !.call[i].fetchOutcome = "rejected"], i, FetchFailure))
    /\ UNCHANGED matchVars

\* The fetch promise resolves with a response: the status check, then res.json().
FetchResolves(i) ==
    /\ pc[i] = "fetch"
    /\ \E st \in StatusSet :
         LET w1 == Logged([World EXCEPT !.call[i].fetchOutcome = "response",
                                       !.call[i].status = st],
                          i, "status", ToString(st))
         IN IF ~StatusOk(st)
            THEN Becomes(Catch(w1, i, ErrorExc(call[i].url \o " HTTP " \o ToString(st))))
            ELSE Becomes(Logged([w1 EXCEPT !.call[i].jsonOutcome = "pending",
                                           !.pc[i] = "json"],
                                i, "json", ""))
    /\ UNCHANGED matchVars

\* res.json() rejects: the body is not JSON.
JsonRejects(i) ==
    /\ pc[i] = "json"
    /\ Becomes(Catch([World EXCEPT !.call[i].jsonOutcome = "rejected"], i, JsonFailure))
    /\ UNCHANGED matchVars

\* res.json() resolves: validation, the panel, then the fallback or render.
JsonResolves(i) ==
    /\ pc[i] = "json"
    /\ \E d \in OrchData, rb \in RenderFailures \cup {NoExc} :
         Becomes(AfterDecode([World EXCEPT !.call[i].jsonOutcome = "decoded",
                                           !.call[i].json = d],
                             i, rb))
    /\ UNCHANGED matchVars

\* The promise render returned fulfils.
RenderFulfils(i) ==
    /\ pc[i] = "render"
    /\ Becomes([World EXCEPT !.call[i].renderOutcome = "fulfilled", !.pc[i] = "done"])
    /\ UNCHANGED matchVars

\* The promise render returned rejects.
RenderRejects(i) ==
    /\ pc[i] = "render"
    /\ \E e \in RenderFailures :
         Becomes(Catch([World EXCEPT !.call[i].renderOutcome = "rejected"], i, e))
    /\ UNCHANGED matchVars

Next ==
    \E i \in CallIds :
        \/ StartCall(i)
        \/ FetchRejects(i)
        \/ FetchResolves(i)
        \/ JsonRejects(i)
        \/ JsonResolves(i)
        \/ RenderFulfils(i)
        \/ RenderRejects(i)

Spec == Init /\ [][Next]_vars

(***************************************************************************)
(* Properties of validateAgainstSchema, under SpecMatch.                   *)
(***************************************************************************)
\* The type tag as the documentation states it.
StatedTypeTag(v) ==
    IF v.isNull THEN "null" ELSE IF v.isArray THEN "array" ELSE v.js

TypeMismatch == schema.type # "" /\ schema.type # StatedTypeTag(data)

OnlyTypeMismatch ==
    /\ ~result.threw
    /\ result.errors = <<Prefixed(path, "Expected type \"" \o schema.type
                                   \o "\" but got \"" \o StatedTypeTag(data) \o "\".")>>
    /\ result.warnings = <<>>
    /\ result.trace = <<Ev("type", path, data)>>

\* C5 as stated: whenever schema.type is set and differs from the type tag of
\* the data, the result is exactly the one type-mismatch error and the type
\* check is the only check that ran.
C5_AsStated == (mpc = "done" /\ TypeMismatch) => OnlyTypeMismatch

\* C5, amended: the same, for schemas that have no anyOf (an anyOf schema never
\* reaches the type check).
C5_TypeMismatchStops ==
    (mpc = "done" /\ TypeMismatch /\ ~schema.hasAnyOf) => OnlyTypeMismatch

C5_Witness ==
    /\ mpc = "done"
    /\ ~schema.hasAnyOf
    /\ schema.type = "object"
    /\ schema.required # <<>>
    /\ schema.propKeys # <<>>
    /\ schema.custom = "throwError"
    /\ data.isArray
    /\ Len(data.vals) = 2
    /\ Len(result.errors) = 1

AltResult(i) == validateAgainstSchema(data, schema.anyOf[i], path)

NoAlternativePasses ==
    \A i \in 1..Len(schema.anyOf) : ~AltResult(i).threw /\ Len(AltResult(i).errors) >= 1

RECURSIVE ErrorsBefore(_)
ErrorsBefore(i) == IF i <= 1 THEN 0 ELSE ErrorsBefore(i - 1) + Len(AltResult(i - 1).errors)

RECURSIVE TracesUpTo(_)
TracesUpTo(i) == IF i = 0 THEN <<>> ELSE TracesUpTo(i - 1) \o AltResult(i).trace

\* C6: when every alternative of an anyOf returns at least one error, the
\* result is the single "must match one of the allowed shapes" error, and the
\* warnings are the alternatives' errors in alternative order then error
\* order, each with the zero-based index of its alternative; nothing but the
\* alternatives is evaluated for the node.
C6_AnyOfFailure ==
    (mpc = "done" /\ schema.hasAnyOf /\ NoAlternativePasses) =>
        /\ ~result.threw
        /\ result.errors = <<Prefixed(path, "Value must match one of the allowed shapes.")>>
        /\ Len(result.warnings) = ErrorsBefore(Len(schema.anyOf) + 1)
        /\ \A i \in 1..Len(schema.anyOf) :
             \A j \in 1..Len(AltResult(i).errors) :
               result.warnings[ErrorsBefore(i) + j] =
                 Prefixed(path, "anyOf[" \o ToString(i - 1) \o "] → "
                                  \o AltResult(i).errors[j])
        /\ result.trace = <<Ev("anyOf", path, data)>> \o TracesUpTo(Len(schema.anyOf))

C6_Witness ==
    /\ mpc = "done"
    /\ schema.hasAnyOf
    /\ schema.type = "string"
    /\ Len(schema.anyOf) = 2
    /\ NoAlternativePasses
    /\ Len(AltResult(1).errors) = 1
    /\ Len(AltResult(2).errors) = 2
    /\ path # ""
    /\ Len(result.warnings) = 3

ObjectWithHook ==
    /\ mpc = "done"
    /\ ~schema.hasAnyOf
    /\ schema.type = "object"
    /\ IsCallable(schema.custom)
    /\ StatedTypeTag(data) = "object"
    /\ ~Children(data, schema, path, Len(data.keys)).threw

ErrorsBeforeHook ==
    RequiredErrors(data, schema.required, path, Len(schema.required))
      \o Children(data, schema, path, Len(data.keys)).errors

HookEvents == {k \in 1..Len(result.trace) :
                 result.trace[k].step = "custom" /\ result.trace[k].path = path}

HookRanOnceLast ==
    /\ HookEvents = {Len(result.trace)}
    /\ result.trace[Len(result.trace)].arg = data

\* C7: for an object schema with a callable custom hook and object data, the
\* hook runs once, last, with the data; validateAgainstSchema returns, keeping
\* the errors found before the hook; a non-empty string the hook returns is
\* one more error, a failure it throws is one "Custom validator threw" error,
\* anything else adds nothing.
C7_HookNeverPropagates ==
    ObjectWithHook =>
        /\ ~result.threw
        /\ HookRanOnceLast
        /\ \E extra \in {<<>>} \cup {<<Prefixed(path, CustomCall(schema.custom, data).text)>>}
                          \cup {<<Prefixed(path, "Custom validator threw: " \o m)>> :
                                  m \in {"boom", "undefined"}} :
             result.errors = ErrorsBeforeHook \o extra

\* C7 holds of every hook that does not throw null or undefined.
C7_ExceptNullish ==
    (ObjectWithHook /\ schema.custom # "throwNull") =>
        /\ ~result.threw
        /\ HookRanOnceLast
        /\ result.errors = ErrorsBeforeHook \o
             (CASE schema.custom = "retMsg" ->
                     <<Prefixed(path, CustomCall(schema.custom, data).text)>>
                [] schema.custom = "throwError" ->
                     <<Prefixed(path, "Custom validator threw: boom")>>
                [] schema.custom = "throwString" ->
                     <<Prefixed(path, "Custom validator threw: undefined")>>
                [] OTHER -> <<>>)

\* C10: a result with no errors has no warnings.
C10_NoErrorsNoWarnings ==
    (mpc = "done" /\ ~result.threw /\ Len(result.errors) = 0) => Len(result.warnings) = 0

C10_Witness ==
    /\ mpc = "done"
    /\ schema.hasAnyOf
    /\ Len(schema.anyOf) = 2
    /\ ~result.threw
    /\ Len(result.errors) = 0
    /\ ~AltResult(1).threw
    /\ Len(AltResult(1).warnings) = 2
    /\ Len(AltResult(2).errors) = 0

(***************************************************************************)
(* Properties of validateAndRender, under Spec.                            *)
(***************************************************************************)
EventIndexes(l, ev) == {k \in 1..Len(l) : l[k].ev = ev}
IsWrite(e) == e.ev = "write"
Writes(l) == SelectSeq(l, IsWrite)
MountExists(c) == c.mountOnErrorId \in {"m1", "m2"}
Finished(i) == pc[i] \in {"done", "rejected"}

\* The fetch resolved with a success status, the body decoded, and the schema
\* matched with no error.
CleanDocument(c) ==
    /\ c.fetchOutcome = "response"
    /\ c.status \in 200..299
    /\ c.jsonOutcome = "decoded"
    /\ c.validated = "returned"
    /\ c.errors = <<>>

\* C1 as stated: for a clean document render is invoked exactly once with the
\* decoded value and the call writes no fallback message at all.
C1_AsStated ==
    \A i \in CallIds :
        CleanDocument(call[i]) =>
            /\ call[i].rendered = <<call[i].json>>
            /\ Writes(log[i]) = <<>>

\* C1, amended: for a clean document render is invoked exactly once with the
\* decoded value, the validation-failed message is never written, and a
\* load-failure message is written only when the render callback itself failed.
C1_CleanDocumentRenders ==
    \A i \in CallIds :
        CleanDocument(call[i]) =>
            /\ call[i].rendered = <<call[i].json>>
            /\ Cardinality(EventIndexes(log[i], "render")) = 1
            /\ \A k \in 1..Len(log[i]) :
                 IsWrite(log[i][k]) =>
                   /\ log[i][k].text # ValidationFailedHtml(call[i].url)
                   /\ call[i].renderOutcome \in {"threw", "rejected"}

C1_Witness ==
    \E i \in CallIds :
        /\ CleanDocument(call[i])
        /\ pc[i] = "done"
        /\ call[i].renderOutcome = "fulfilled"
        /\ call[i].mountOnErrorId = "m1"
        /\ mounts["m1"] = ""

\* C2: in the step in which schema matching returns at least one error, the
\* call ends without invoking render; an existing mount gets the
\* validation-failed message for the url, and without such a mount no element
\* is written.  Render is not invoked afterwards either.
C2_ErrorsBlockRender ==
    [][\A i \in CallIds :
         (call'[i].validated = "returned" /\ Len(call'[i].errors) >= 1) =>
            /\ call'[i].rendered = <<>>
            /\ EventIndexes(log'[i], "render") = {}
            /\ pc'[i] = "done"
            /\ call[i].validated = "none" =>
                 IF MountExists(call[i])
                 THEN /\ mounts' = [mounts EXCEPT ![call[i].mountOnErrorId] =
                                      ValidationFailedHtml(call[i].url)]
                      /\ Writes(log'[i]) =
                           <<[ev |-> "write", text |-> ValidationFailedHtml(call[i].url)]>>
                 ELSE mounts' = mounts /\ Writes(log'[i]) = <<>>]_vars

C2_Witness ==
    \E i \in CallIds :
        /\ call[i].validated = "returned"
        /\ Len(call[i].errors) >= 1
        /\ call[i].mountOnErrorId = "m2"
        /\ mounts["m2"] = ValidationFailedHtml(call[i].url)
        /\ \E j \in CallIds : call[j].validated = "returned" /\ call[j].mountOnErrorId = "gone"
                                /\ Len(call[j].errors) >= 1

HttpFailureText(c) == c.url \o " HTTP " \o ToString(c.status)

\* C3: in the step in which the fetch resolves with a non-success status the
\* call ends: the body is not decoded, the schema is not matched, render is
\* not invoked, and an existing mount gets the load-failure message, which
\* contains the status code.  Nothing of this happens afterwards either.
C3_HttpFailure ==
    [][\A i \in CallIds :
         (call'[i].fetchOutcome = "response" /\ call'[i].status \notin 200..299) =>
            /\ pc'[i] = "done"
            /\ call'[i].jsonOutcome = "none"
            /\ call'[i].validated = "none"
            /\ call'[i].rendered = <<>>
            /\ \A ev \in {"json", "validate", "panel", "render"} :
                 EventIndexes(log'[i], ev) = {}
            /\ (call[i].fetchOutcome = "pending" /\ MountExists(call[i])) =>
                 /\ mounts'[call[i].mountOnErrorId] =
                      LoadFailedHtml(call[i].url, HttpFailureText(call'[i]))
                 /\ Contains(mounts'[call[i].mountOnErrorId], ToString(call'[i].status))]_vars

C3_Witness ==
    \E i \in CallIds :
        /\ call[i].fetchOutcome = "response"
        /\ call[i].status = 404
        /\ call[i].mountOnErrorId = "m1"
        /\ Contains(mounts["m1"], "404")
        /\ pc[i] = "done"

\* C4: no call ends by rejecting towards its caller; a call that caught a
\* failure is complete, and an existing mount then holds the load-failure
\* message, with the message of the failure when the failure is an Error.
C4_NeverReRaises ==
    \A i \in CallIds :
        /\ pc[i] # "rejected"
        /\ call[i].caught # <<>> =>
             /\ pc[i] = "done"
             /\ MountExists(call[i]) =>
                  /\ Len(Writes(log[i])) = 1
                  /\ \E m \in {call[i].caught[1].message, "undefined"} :
                       Writes(log[i])[1].text = LoadFailedHtml(call[i].url, m)
                  /\ call[i].caught[1].kind = "Error" =>
                       Writes(log[i])[1].text =
                         LoadFailedHtml(call[i].url, call[i].caught[1].message)

\* C4 holds of every failure other than a null or undefined one thrown or
\* rejected by render while the mount exists.
C4_ExceptNullish ==
    \A i \in CallIds :
        pc[i] = "rejected" =>
            /\ call[i].renderOutcome \in {"threw", "rejected"}
            /\ call[i].caught = <<NullishExc>>
            /\ MountExists(call[i])

\* What a call shows, from its own arguments and awaited values alone: own is
\* [rendered, panel, message], each an empty or one-element sequence.
OwnValidation(c) == validateAgainstSchema(c.json, c.schema, StripJson(c.url))

OwnOutcome(c) ==
    LET v == IF c.jsonOutcome = "decoded" THEN OwnValidation(c) ELSE Thrown(NoExc, <<>>)
        matched == c.jsonOutcome = "decoded" /\ ~v.threw
    IN [rendered |-> IF matched /\ v.errors = <<>> THEN <<c.json>> ELSE <<>>,
        panel |-> IF matched
                  THEN <<[fileName |-> c.url, errors |-> v.errors, warnings |-> v.warnings]>>
                  ELSE <<>>,
        message |-> IF ~MountExists(c) THEN <<>>
                    ELSE IF matched /\ v.errors # <<>> THEN <<ValidationFailedHtml(c.url)>>
                    ELSE IF c.caught # <<>> /\ c.caught[1].kind # "nullish"
                         THEN <<LoadFailedHtml(c.url, IF c.caught[1].kind = "Error"
                                                      THEN c.caught[1].message
                                                      ELSE "undefined")>>
                    ELSE <<>>]

AllFinished == \A i \in CallIds : Finished(i)

Occurrences(sq, x) == Cardinality({k \in 1..Len(sq) : sq[k] = x})

\* C8 as stated: once both calls are complete, each call's mount shows that
\* call's own message, also when the calls share the mount.
C8_AsStated ==
    AllFinished =>
        \A i \in CallIds :
            OwnOutcome(call[i]).message # <<>> =>
                mounts[call[i].mountOnErrorId] = OwnOutcome(call[i]).message[1]

\* C8, amended: once both calls are complete, whether a call invoked render,
\* the message it wrote and the panel it prepended are those its own fetch,
\* decoding, validation and render outcomes determine; a mount that only one
\* call names shows that call's message (or is untouched), a mount both calls
\* name shows the message of one of them, and the panels are the calls' own
\* panels in some order.
C8_CallsIndependent ==
    AllFinished =>
        LET own == [i \in CallIds |-> OwnOutcome(call[i])]
        IN /\ \A i \in CallIds :
                /\ call[i].rendered = own[i].rendered
                /\ Len(Writes(log[i])) = Len(own[i].message)
                /\ \A k \in 1..Len(own[i].message) :
                     Writes(log[i])[k].text = own[i].message[k]
                /\ own[i].panel # <<>> =>
                     Occurrences(panels, own[i].panel[1]) =
                       Cardinality({j \in CallIds : own[j].panel = own[i].panel})
           /\ Len(panels) = Cardinality({j \in CallIds : own[j].panel # <<>>})
           /\ \A m \in DOMAIN mounts :
                LET users == {i \in CallIds : call[i].mountOnErrorId = m
                                                /\ own[i].message # <<>>}
                IN IF users = {} THEN mounts[m] = ""
                   ELSE \E i \in users : mounts[m] = own[i].message[1]

C8_Witness ==
    /\ AllFinished
    /\ call[1].mountOnErrorId = "m1"
    /\ call[2].mountOnErrorId = "m2"
    /\ mounts["m1"] = ValidationFailedHtml(call[1].url)
    /\ mounts["m2"] = LoadFailedHtml(call[2].url, "render failed")
    /\ Len(panels) = 2
    /\ panels[1].fileName = call[1].url
    /\ panels[1].fileName # panels[2].fileName

First(S) == CHOOSE k \in S : \A j \in S : k <= j

\* ev1 happens at most once, and whenever ev2 happens ev1 happened before it.
Precedes(l, ev1, ev2) ==
    /\ Cardinality(EventIndexes(l, ev1)) <= 1
    /\ \A k \in EventIndexes(l, ev2) :
         EventIndexes(l, ev1) # {} /\ First(EventIndexes(l, ev1)) < k

\* C9: a call issues exactly one fetch; its events are ordered fetch, status
\* check, decoding, matching, panel, then the validation-failed write or
\* render; the panel is shown exactly once when matching returned and not at
\* all otherwise, and always before render and before the call's writes.
C9_EventOrder ==
    \A i \in CallIds :
        LET l == log[i]
            shown == Cardinality(EventIndexes(l, "panel"))
        IN /\ Cardinality(EventIndexes(l, "fetch")) = (IF pc[i] = "idle" THEN 0 ELSE 1)
           /\ Precedes(l, "fetch", "status")
           /\ Precedes(l, "status", "json")
           /\ Precedes(l, "json", "validate")
           /\ Precedes(l, "validate", "panel")
           /\ Precedes(l, "panel", "render")
           /\ shown = (IF call[i].validated = "returned" THEN 1 ELSE 0)
           /\ (call[i].fetchOutcome = "rejected" \/ call[i].status \notin {0} \cup 200..299
                 \/ call[i].jsonOutcome = "rejected" \/ call[i].validated = "threw")
                => shown = 0
           /\ shown = 1 => \A k \in EventIndexes(l, "write") : First(EventIndexes(l, "panel")) < k
           /\ \A k \in EventIndexes(l, "write") :
                l[k].text = ValidationFailedHtml(call[i].url) => shown = 1

C9_Witness ==
    \E i \in CallIds :
        /\ pc[i] = "done"
        /\ call[i].validated = "returned"
        /\ call[i].renderOutcome = "rejected"
        /\ Len(Writes(log[i])) = 1
        /\ [k \in 1..5 |-> log[i][k].ev] = <<"fetch", "status", "json", "validate", "panel">>
        /\ \E j \in CallIds : pc[j] = "done" /\ call[j].validated = "returned"
                                /\ call[j].errors # <<>> /\ Len(Writes(log[j])) = 1

\* C10, for validateAndRender: render is not invoked for a document whose
\* validation produced a warning.
C10_NoRenderWithWarnings ==
    \A i \in CallIds : call[i].warnings # <<>> => call[i].rendered = <<>>

====
